---- MODULE Spec2Model ----
(***************************************************************************)
(* Model of the streaming response pipeline of the "Self-Hosted DeepSeek   *)
(* R1" VSCode extension (extension.ts, SidebarProvider.ts, chatview/app.js)*)
(*                                                                         *)
(* Text is a sequence of one-character strings.  A response stream is a    *)
(* sequence of bytes; chunk.toString() decodes every chunk on its own.     *)
(* One JSON payload is abbreviated: "{" body "}" stands for an object      *)
(* whose content field ("response" for the self-hosted shape,              *)
(* "choices[0].delta.content" for the cloud shape) is the text body;       *)
(* every other text is rejected by JSON.parse.                             *)
(*                                                                         *)
(* One action is one turn of the Node event loop: the handler that runs    *)
(* and every promise continuation (microtask) it makes runnable.           *)
(***************************************************************************)
EXTENDS Integers, Sequences, FiniteSets, TLC

VARIABLES
  currentAbortController, \* 0 (null) or the request whose controller is stored
  conversationHistory,    \* sequence of Turns [role, content]
  turnReq,                \* ghost: request that appended each Turn
  req,                    \* the requests issued so far, in order of issue
  resetAt,                \* ghost: number of requests issued before the
                          \* last reset, 0 when there was none
  dec,                    \* the harness of the pure functions (the
                          \* specifications other than Spec)
  raised                  \* a command handler has thrown an error

vars == <<currentAbortController, conversationHistory, turnReq, req,
          resetAt, dec, raised>>

(***************************** bounds **************************************)
MaxReq == 2
MaxData == 2
MaxLines == 3
MaxTurns == 3

(***************************** text ****************************************)
NL == "\n"
LeadByte == "L"      \* first byte of a two-byte UTF-8 character
ContByte == "T"      \* its continuation byte
WideChar == "e'"     \* the character the two bytes encode
Replacement == "?"   \* U+FFFD, produced for an incomplete byte sequence

WhiteSpace == {" ", NL}
StringChars == {"a", "b", " ", WideChar, Replacement}

RECURSIVE toString(_)
toString(bytes) ==
  IF bytes = <<>> THEN <<>>
  ELSE IF Head(bytes) = LeadByte
       THEN IF Len(bytes) >= 2 /\ bytes[2] = ContByte
            THEN <<WideChar>> \o toString(SubSeq(bytes, 3, Len(bytes)))
            ELSE <<Replacement>> \o toString(Tail(bytes))
  ELSE IF Head(bytes) = ContByte
       THEN <<Replacement>> \o toString(Tail(bytes))
  ELSE <<Head(bytes)>> \o toString(Tail(bytes))

RECURSIVE trimStart(_)
trimStart(s) ==
  IF s # <<>> /\ Head(s) \in WhiteSpace THEN trimStart(Tail(s)) ELSE s

RECURSIVE trimEnd(_)
trimEnd(s) ==
  IF s # <<>> /\ s[Len(s)] \in WhiteSpace
  THEN trimEnd(SubSeq(s, 1, Len(s) - 1)) ELSE s

trim(s) == trimEnd(trimStart(s))

includes(s, c) == \E i \in 1..Len(s) : s[i] = c

\* 1-based position of the first c in s, 0 when there is none
indexOf(s, c) ==
  IF includes(s, c)
  THEN CHOOSE i \in 1..Len(s) : s[i] = c /\ \A j \in 1..(i - 1) : s[j] # c
  ELSE 0

RECURSIVE split(_, _)
split(s, c) ==
  IF ~includes(s, c) THEN <<s>>
  ELSE <<SubSeq(s, 1, indexOf(s, c) - 1)>>
       \o split(SubSeq(s, indexOf(s, c) + 1, Len(s)), c)

startsWith(s, p) == Len(s) >= Len(p) /\ SubSeq(s, 1, Len(p)) = p

slice(s, n) == SubSeq(s, n + 1, Len(s))

RECURSIVE Concat(_)
Concat(ss) == IF ss = <<>> THEN <<>> ELSE Head(ss) \o Concat(Tail(ss))

\* JSON.parse followed by the read of the content field: ok is FALSE when
\* the parse (or the field access) throws, content is "" when it is absent
JSONparse(text) ==
  LET t == trim(text) IN
  IF /\ Len(t) >= 2
     /\ t[1] = "{"
     /\ t[Len(t)] = "}"
     /\ \A i \in 2..(Len(t) - 1) : t[i] \in StringChars
  THEN [ok |-> TRUE, content |-> SubSeq(t, 2, Len(t) - 1)]
  ELSE [ok |-> FALSE, content |-> <<>>]

(***************************** self-hosted decoder *************************)
\* state: [buffer, fullResponse, out]; out collects the streamChunk payloads
\* posted by this call
processLine(state, line) ==
  IF line = <<>> THEN state
  ELSE LET parsed == JSONparse(line) IN
       IF parsed.ok /\ parsed.content # <<>>
       THEN [state EXCEPT !.fullResponse = @ \o parsed.content,
                          !.out = Append(@, parsed.content)]
       ELSE state

\* mutant of processBuffer: no try/catch, a line that fails to parse ends
\* the loop with the rest of the buffer unread
RECURSIVE processBufferNoCatch(_)
processBufferNoCatch(state) ==
  IF ~includes(state.buffer, NL) THEN state
  ELSE LET i == indexOf(state.buffer, NL)
           line == trim(SubSeq(state.buffer, 1, i - 1))
           rest == SubSeq(state.buffer, i + 1, Len(state.buffer))
       IN IF line # <<>> /\ ~JSONparse(line).ok
          THEN [state EXCEPT !.buffer = rest]
          ELSE processBufferNoCatch(
                 processLine([state EXCEPT !.buffer = rest], line))

\* mutant of processBuffer: what is left after the last newline is parsed
\* as a line too
RECURSIVE processBufferEager(_)
processBufferEager(state) ==
  IF ~includes(state.buffer, NL)
  THEN processLine([state EXCEPT !.buffer = <<>>], trim(state.buffer))
  ELSE LET i == indexOf(state.buffer, NL)
           line == trim(SubSeq(state.buffer, 1, i - 1))
           rest == SubSeq(state.buffer, i + 1, Len(state.buffer))
       IN processBufferEager(
            processLine([state EXCEPT !.buffer = rest], line))

RECURSIVE processBuffer(_)
processBuffer(state) ==
  IF ~includes(state.buffer, NL) THEN state
  ELSE LET i == indexOf(state.buffer, NL)
           line == trim(SubSeq(state.buffer, 1, i - 1))
           rest == SubSeq(state.buffer, i + 1, Len(state.buffer))
       IN processBuffer(processLine([state EXCEPT !.buffer = rest], line))

\* response.data.on("data") of handleStreamingRequest
streamOnData(state, aborted, chunk) ==
  IF aborted THEN [state EXCEPT !.out = <<>>]
  ELSE processBuffer([state EXCEPT !.buffer = @ \o toString(chunk),
                                   !.out = <<>>])

Turn(role, content) == [role |-> role, content |-> content]

\* mutant of finalizeStream: the response is not stored
finalizeStreamNoAppend(fullResponse, useMultiRound, history) ==
  [history |-> history, command |-> "streamComplete", value |-> fullResponse]

finalizeStream(fullResponse, useMultiRound, history) ==
  [history |-> IF useMultiRound
               THEN Append(history, Turn("assistant", fullResponse))
               ELSE history,
   command |-> "streamComplete",
   value   |-> fullResponse]


(***************************** errors **************************************)
NoError == [isError |-> FALSE, isAxios |-> FALSE, status |-> 0, message |-> ""]

\* what axios rejects with when the signal of the POST is aborted
CanceledError ==
  [isError |-> TRUE, isAxios |-> TRUE, status |-> 0, message |-> "canceled"]

AxiosError(status, message) ==
  [isError |-> TRUE, isAxios |-> TRUE, status |-> status, message |-> message]

Error(message) ==
  [isError |-> TRUE, isAxios |-> FALSE, status |-> 0, message |-> message]

\* a rejection with a bare string: reject(error.message)
StringReason(message) ==
  [isError |-> FALSE, isAxios |-> FALSE, status |-> 0, message |-> message]

PostErrors ==
  { AxiosError(401, "Request failed with status code 401"),
    AxiosError(404, "Request failed with status code 404"),
    AxiosError(0, "Network Error") }

StreamFailure == "socket hang up"

handleError(error) ==
  IF error.isAxios
  THEN IF error.status = 401
       THEN "Authentication failed. Check your API key."
       ELSE IF error.status = 404
            THEN "Invalid API endpoint. Check your configuration."
            ELSE error.message
  ELSE IF error.isError /\ error.message = "Request aborted"
       THEN "Generation stopped."
       ELSE "Failed to get response. Check error logs for details."

\* error instanceof Error ? error.message : String(error)
handleWebviewError(error) == error.message

(***************************** sink events *********************************)
\* one postMessage to the webview that issued the request
Ev(command, text, error, sender) ==
  [command |-> command, text |-> text, error |-> error, sender |-> sender]

Sinks == {"sidebar", "panel"}
AccountTypes == {"cloud", "self-hosted"}
Messages == { <<"h", "i">> }

\* the part of the webview message handler that runs before sendToDeepSeek
beforeSend(sink, message) ==
  IF sink = "sidebar"
  THEN << Ev("addMessage", trim(message), "", "user"),
          Ev("addThinking", <<>>, "", "") >>
  ELSE << Ev("addThinking", <<>>, "", "") >>

\* the continuation of `await sendToDeepSeek(...)` when the promise resolves
callerOnResolve(sink, response) ==
  << Ev("addMessage", response, "", "deepseek") >>

\* ... and when it rejects: the sidebar catches, the floating panel does not
callerOnReject(sink, error) ==
  IF sink = "sidebar"
  THEN << Ev("error", <<>>, handleWebviewError(error), "") >>
  ELSE <<>>

\* mutant of chunkEvents: the fragments of one chunk are posted last first
chunkEventsReversed(out) ==
  [i \in 1..Len(out) |-> Ev("streamChunk", out[Len(out) + 1 - i], "", "")]

chunkEvents(out) == [i \in 1..Len(out) |-> Ev("streamChunk", out[i], "", "")]

\* the stop control of the chat view after its message listener has
\* handled one event: shown by startResponse, hidden by streamComplete and
\* by error, left alone by every other command
stopButtonAfter(visible, event) ==
  CASE event.command = "startResponse"  -> TRUE
    [] event.command = "streamComplete" -> FALSE
    [] event.command = "error"          -> FALSE
    [] OTHER                            -> visible

\* ... and after a sequence of events
RECURSIVE stopButton(_, _)
stopButton(visible, events) ==
  IF events = <<>> THEN visible
  ELSE stopButton(stopButtonAfter(visible, Head(events)), Tail(events))

(***************************** conversation ********************************)
\* mutant of appendUser: the user's Turn is stored whatever the flag says
appendUserAlways(history, useMultiRound, message) ==
  Append(history, Turn("user", message))

\* sendToDeepSeek: if (useMultiRound) conversationHistory.push({user, message})
appendUser(history, useMultiRound, message) ==
  IF useMultiRound THEN Append(history, Turn("user", message)) ELSE history

UserLabel == <<"U", "s", "e", "r">>
AssistantLabel == <<"A", "s", "s", "i", "s", "t", "a", "n", "t">>

\* `${msg.role === "user" ? "User" : "Assistant"}: ${msg.content}`
block(msg) ==
  (IF msg.role = "user" THEN UserLabel ELSE AssistantLabel)
    \o <<":", " ">> \o msg.content

\* Array.prototype.join
RECURSIVE join(_, _)
join(parts, sep) ==
  IF parts = <<>> THEN <<>>
  ELSE IF Len(parts) = 1 THEN parts[1]
  ELSE parts[1] \o sep \o join(Tail(parts), sep)

\* mutant of formatConversation: every block is terminated by the separator
formatConversationTerminated(history) ==
  join([i \in 1..Len(history) |-> block(history[i]) \o <<NL, NL>>], <<>>)

formatConversation(history) ==
  join([i \in 1..Len(history) |-> block(history[i])], <<NL, NL>>)

(***************************** configuration *******************************)
\* what config.get returns for a setting that has no value
Undefined == "undefined"

\* a number setting, in tenths, as config.get returns it
Number(tenths) == [type |-> "number", tenths |-> tenths]
NotANumber == [type |-> "undefined", tenths |-> 0]

\* the operand of || counts as false: undefined, "" and 0
FalsyString(v) == v \in {Undefined, ""}
FalsyNumber(v) == v.type = "undefined" \/ v.tenths = 0

Digits == <<"0", "1", "2", "3", "4", "5", "6", "7", "8", "9">>

\* String(number), for a number of tenths below 100
NumberToString(tenths) ==
  IF tenths % 10 = 0
  THEN << Digits[(tenths \div 10) + 1] >>
  ELSE << Digits[(tenths \div 10) + 1], ".", Digits[(tenths % 10) + 1] >>

DigitValue(c) == CHOOSE d \in 0..9 : Digits[d + 1] = c

\* parseFloat of a decimal string with at most one fractional digit, in
\* tenths
parseFloat(chars) ==
  IF Len(chars) = 1 THEN 10 * DigitValue(chars[1])
  ELSE 10 * DigitValue(chars[1]) + DigitValue(chars[3])

\* parseFloat(config.get("aiR1ModelTemperature") || "0.3"); a number
\* operand is converted to its string first
temperatureOf(configured) ==
  parseFloat(IF FalsyNumber(configured) THEN <<"0", ".", "3">>
             ELSE NumberToString(configured.tenths))

CloudUrl == "https://api.deepseek.com/v1/chat/completions"
CloudModel == "deepseek-chat"
DefaultSelfHostedUrl == "http://localhost:11434"
DefaultModel == "deepseek-r1:7b"
MaxTokens == 4096
JsonContent == "application/json"

\* the settings of package.json with their defaults
DefaultConfig ==
  [accountType |-> "self-hosted",
   optionalCloudApiKey |-> "Only for cloud option..",
   aiR1SelfHostedUrl |-> DefaultSelfHostedUrl,
   aiR1Model |-> DefaultModel,
   aiR1ModelTemperature |-> Number(3)]

\* config.get<string>("accountType") || "self-hosted"
accountTypeOf(config) ==
  IF FalsyString(config.accountType) THEN "self-hosted"
  ELSE config.accountType

\* the descriptor prepareRequest returns for the cloud API
cloudRequest(config, history) ==
  [url |-> CloudUrl,
   headers |-> [ContentType |-> JsonContent,
                Authorization |-> <<"Bearer ", config.optionalCloudApiKey>>],
   data |-> [model |-> CloudModel, messages |-> history,
             temperature |-> temperatureOf(config.aiR1ModelTemperature),
             stream |-> TRUE]]

\* ... and for a self-hosted server
selfHostedRequest(config, prompt) ==
  [url |-> << IF FalsyString(config.aiR1SelfHostedUrl)
              THEN DefaultSelfHostedUrl ELSE config.aiR1SelfHostedUrl,
              "/api/generate" >>,
   headers |-> [ContentType |-> JsonContent],
   data |-> [model |-> IF FalsyString(config.aiR1Model)
                       THEN DefaultModel ELSE config.aiR1Model,
             prompt |-> prompt,
             temperature |-> temperatureOf(config.aiR1ModelTemperature),
             max_tokens |-> MaxTokens,
             stream |-> TRUE]]

\* mutant of prepareRequest: the prompt is the latest message only
prepareRequestLatestOnly(config, message, useMultiRound, history) ==
  IF accountTypeOf(config) = "cloud"
  THEN cloudRequest(config, history)
  ELSE selfHostedRequest(config, message)

\* mutant of prepareRequest: the self-hosted request carries the key too
prepareRequestAlwaysAuthorized(config, message, useMultiRound, history) ==
  IF accountTypeOf(config) = "cloud"
  THEN cloudRequest(config, history)
  ELSE [selfHostedRequest(config,
                          IF useMultiRound THEN formatConversation(history)
                          ELSE message)
          EXCEPT !.headers = cloudRequest(config, history).headers]

\* the descriptor of the POST: the Turns for the cloud API, one prompt
\* string for a self-hosted server
prepareRequest(config, message, useMultiRound, history) ==
  IF accountTypeOf(config) = "cloud"
  THEN cloudRequest(config, history)
  ELSE selfHostedRequest(config,
                         IF useMultiRound THEN formatConversation(history)
                         ELSE message)

(***************************** requests ************************************)
\* sendToDeepSeek: self-hosted requests go to handleStreamingRequest,
\* everything else to handleCloudRequest
routeOf(accountType) ==
  IF accountType = "self-hosted" THEN "stream" ELSE "cloud"

\* sendToDeepSeek: the handler the response is given to,
\* accountType === "self-hosted" && data.stream
handlerOf(config, data) ==
  IF data.stream THEN routeOf(accountTypeOf(config)) ELSE "cloud"

\* the configuration of a request: the defaults and the chosen account type
ConfigOf(accountType) == [DefaultConfig EXCEPT !.accountType = accountType]

NewRequest(sink, message, accountType, useMultiRound, preempts, history) ==
  [ sink |-> sink, message |-> message, accountType |-> accountType,
    useMultiRound |-> useMultiRound, route |-> routeOf(accountType),
    data |-> prepareRequest(ConfigOf(accountType), message, useMultiRound,
                            history).data,
    stage |-> "posting",          \* posting, streaming, closed, failed
    aborted |-> FALSE,            \* signal.aborted of the request's controller
    outcome |-> "pending",        \* of the promise sendToDeepSeek returned
    error |-> NoError, value |-> <<>>,
    buffer |-> <<>>, fullResponse |-> <<>>,
    posted |-> beforeSend(sink, message), \* ghost: events posted for it
    chunks |-> 0,                 \* ghost: data events delivered so far
    streamed |-> <<>>,            \* ghost: fragments the stream has carried
    abortedAt |-> "never",        \* ghost: stage when the abort was signalled
    preempts |-> preempts,        \* ghost: requests streaming when issued
    overtook |-> {},              \* ghost: see Overtaken
    posts |-> 1 ]                 \* ghost: axios.post calls made for it

\* the abort listeners of handleStreamingRequest are registered
listening(q) == q.route = "stream" /\ q.stage \in {"streaming", "closed"}

\* the request has not settled and its POST or stream is still open
inFlight(q) == q.outcome = "pending" /\ q.stage \in {"posting", "streaming"}

\* what the two abort listeners post, synchronously inside abort()
abortPosts(q) ==
  IF listening(q)
  THEN << Ev("streamComplete", <<>>, "", ""),
          Ev("streamComplete", <<>>, "", "") >>
  ELSE <<>>

\* controller.abort(): the effect on the request that owns the controller.
\* A self-hosted POST that is still pending is cancelled by axios; once the
\* listeners are registered they destroy the stream and reject the promise;
\* the rejection reaches the awaiting caller in the same turn.
abortRequest(q) ==
  IF q.aborted THEN q
  ELSE LET base == [q EXCEPT !.aborted = TRUE,
                             !.abortedAt = IF inFlight(q) THEN q.stage
                                           ELSE "settled",
                             !.posted = @ \o abortPosts(q)]
       IN IF q.route = "stream" /\ q.stage = "posting"
          THEN [base EXCEPT !.stage = "failed", !.outcome = "rejected",
                            !.error = CanceledError,
                            !.posted = @ \o callerOnReject(q.sink,
                                                           CanceledError)]
          ELSE IF listening(q)
          THEN IF q.outcome = "pending"
               THEN [base EXCEPT !.stage = "closed", !.outcome = "rejected",
                                 !.error = Error("Request aborted"),
                                 !.posted = @ \o callerOnReject(
                                              q.sink, Error("Request aborted"))]
               ELSE [base EXCEPT !.stage = "closed"]
          ELSE base

abort(rq, c) == [rq EXCEPT ![c] = abortRequest(rq[c])]

\* mutant of abortExisting: the stored controller is overwritten unaborted
abortExistingMissing(rq, c) == rq

\* sendToDeepSeek: if (currentAbortController) currentAbortController.abort()
abortExisting(rq, c) == IF c # 0 THEN abort(rq, c) ELSE rq

\* currentAbortController.abort() throws a TypeError when the variable
\* holds null
abortThrows(c) == c = 0

\* mutant of stopRaises: abort() is called without looking at the variable
stopRaisesUnguarded(c) == abortThrows(c)

\* stopGeneratingResponse(): whether the call raises an error
stopRaises(c) == IF c # 0 THEN abortThrows(c) ELSE FALSE

\* stopGeneratingResponse(): abort the stored controller (then clear it)
stopGeneratingResponse(rq, c) == IF c # 0 THEN abort(rq, c) ELSE rq

(***************************** cloud decoder *******************************)
DataPrefix == <<"d", "a", "t", "a", ":", " ">>

\* the for loop of handleCloudStream's data handler; state is
\* [fullResponse, out, threw], a throwing line leaves the loop
RECURSIVE cloudLines(_, _)
cloudLines(state, lines) ==
  IF lines = <<>> THEN state
  ELSE IF ~startsWith(Head(lines), DataPrefix)
       THEN cloudLines(state, Tail(lines))
       ELSE LET data == JSONparse(slice(Head(lines), 6)) IN
            IF ~data.ok THEN [state EXCEPT !.threw = TRUE]
            ELSE IF data.content # <<>>
                 THEN cloudLines(
                        [state EXCEPT !.fullResponse = @ \o data.content,
                                      !.out = Append(@, data.content)],
                        Tail(lines))
                 ELSE cloudLines(state, Tail(lines))

\* response.data.on("data") of handleCloudStream
cloudOnData(fullResponse, chunk) ==
  cloudLines([fullResponse |-> fullResponse, out |-> <<>>, threw |-> FALSE],
             split(toString(chunk), NL))

(***************************** the network *********************************)
SelfChunks ==
  { <<"{", "a", "}", NL>>,       \* one complete line
    <<"x", NL>>,                 \* one line that is not JSON
    <<"{", "a", "}", NL, "{", "b", "}", NL>> }   \* two lines

CloudChunks ==
  { DataPrefix \o <<"{", "a", "}", NL>>,
    DataPrefix \o <<"x", NL>>,  \* a payload that is not JSON
    DataPrefix \o <<"{", "a", "}", NL>> \o DataPrefix \o <<"{", "b", "}", NL>> }

\* the fragments the server put into a chunk, in the order it sent them
Carried(chunk) ==
  IF chunk \in { <<"{", "a", "}", NL>>, DataPrefix \o <<"{", "a", "}", NL>> }
  THEN << <<"a">> >>
  ELSE IF chunk \in { <<"x", NL>>, DataPrefix \o <<"x", NL>> }
       THEN <<>>
       ELSE << <<"a">>, <<"b">> >>

(***************************** initial state *******************************)
NoDec == [phase |-> "off", lines |-> <<>>, tail |-> <<>>, cut |-> 0,
          chunks |-> <<>>, st |-> <<>>]

Init ==
  /\ currentAbortController = 0
  /\ conversationHistory = <<>>
  /\ turnReq = <<>>
  /\ req = <<>>
  /\ resetAt = 0
  /\ raised = FALSE
  /\ dec = NoDec

(***************************** actions *************************************)
HasPosted(q, command) ==
  \E i \in 1..Len(q.posted) : q.posted[i].command = command

\* ghost: the request that appended each Turn of the history
Owners(owners, history, r) ==
  owners \o [i \in 1..(Len(history) - Len(owners)) |-> r]

\* data events delivered so far, over all response streams
RECURSIVE Delivered(_)
Delivered(rq) ==
  IF rq = <<>> THEN 0 ELSE Head(rq).chunks + Delivered(Tail(rq))

Streaming(rq) ==
  {a \in 1..Len(rq) : rq[a].stage = "streaming" /\ rq[a].outcome = "pending"}

\* ghost: the requests that r preempted and that have received no
\* streamComplete at the moment r posts the stream chunks `out`
Overtaken(rq, r, out) ==
  IF out = <<>> THEN {}
  ELSE {a \in rq[r].preempts : ~HasPosted(rq[a], "streamComplete")}

\* a webview posts "sendMessage": the message handler up to the first await
\* inside sendToDeepSeek (the POST has been issued)
SendMessage(sink, message, accountType, useMultiRound) ==
  /\ Len(req) < MaxReq
  /\ conversationHistory' =
       appendUser(conversationHistory, useMultiRound, message)
  /\ req' = Append(abortExisting(req, currentAbortController),
                   NewRequest(sink, message, accountType, useMultiRound,
                              Streaming(req), conversationHistory'))
  /\ currentAbortController' = Len(req) + 1
  /\ turnReq' = Owners(turnReq, conversationHistory', Len(req) + 1)
  /\ UNCHANGED <<resetAt, dec, raised>>

\* axios.post resolves and response.data is a readable stream
PostResolve(r) ==
  /\ r \in 1..Len(req)
  /\ req[r].stage = "posting"
  /\ req' = [req EXCEPT
               ![r].stage = "streaming",
               ![r].posted = IF req[r].route = "stream"
                             THEN Append(@, Ev("startResponse", <<>>, "", ""))
                             ELSE @]
  /\ UNCHANGED <<currentAbortController, conversationHistory, turnReq,
                 resetAt, dec, raised>>

\* mutant of PostReject: the rejected POST is issued once more
PostRejectRetries(r, error) ==
  /\ r \in 1..Len(req)
  /\ req[r].stage = "posting"
  /\ req' = IF req[r].posts < 2
            THEN [req EXCEPT ![r].posts = @ + 1]
            ELSE [req EXCEPT ![r].stage = "failed",
                             ![r].outcome = "rejected",
                             ![r].error = error,
                             ![r].posted = @ \o callerOnReject(req[r].sink,
                                                               error)]
  /\ UNCHANGED <<currentAbortController, conversationHistory, turnReq,
                 resetAt, dec, raised>>

\* axios.post rejects: nothing catches it before the caller of sendToDeepSeek
PostReject(r, error) ==
  /\ r \in 1..Len(req)
  /\ req[r].stage = "posting"
  /\ req' = [req EXCEPT ![r].stage = "failed", ![r].outcome = "rejected",
                        ![r].error = error,
                        ![r].posted = @ \o callerOnReject(req[r].sink, error)]
  /\ UNCHANGED <<currentAbortController, conversationHistory, turnReq,
                 resetAt, dec, raised>>

\* axios.post of a cloud request resolves with a body that is not an event
\* emitter (the POST is issued without responseType: "stream"):
\* response.data.on throws inside the executor of handleCloudStream and the
\* promise rejects with the TypeError
CloudBodyNotStream(r) ==
  /\ r \in 1..Len(req)
  /\ req[r].route = "cloud"
  /\ req[r].stage = "posting"
  /\ LET error == Error("response.data.on is not a function")
     IN req' = [req EXCEPT ![r].stage = "failed", ![r].outcome = "rejected",
                           ![r].error = error,
                           ![r].posted = @ \o callerOnReject(req[r].sink,
                                                             error)]
  /\ UNCHANGED <<currentAbortController, conversationHistory, turnReq,
                 resetAt, dec, raised>>

\* "data" event of a self-hosted response stream
StreamData(r, chunk) ==
  /\ r \in 1..Len(req)
  /\ req[r].route = "stream"
  /\ req[r].stage = "streaming"
  /\ Delivered(req) < MaxData
  /\ chunk \in SelfChunks
  /\ LET st == streamOnData([buffer |-> req[r].buffer,
                             fullResponse |-> req[r].fullResponse,
                             out |-> <<>>],
                            req[r].aborted, chunk)
     IN req' = [req EXCEPT ![r].buffer = st.buffer,
                           ![r].fullResponse = st.fullResponse,
                           ![r].chunks = @ + 1,
                           ![r].streamed = @ \o Carried(chunk),
                           ![r].posted = @ \o chunkEvents(st.out),
                           ![r].overtook = @ \cup Overtaken(req, r, st.out)]
  /\ UNCHANGED <<currentAbortController, conversationHistory, turnReq,
                 resetAt, dec, raised>>

\* "data" event of a cloud response stream; a throwing line rejects the
\* promise of handleCloudStream, which rejects the caller's await
CloudData(r, chunk) ==
  /\ r \in 1..Len(req)
  /\ req[r].route = "cloud"
  /\ req[r].stage = "streaming"
  /\ Delivered(req) < MaxData
  /\ chunk \in CloudChunks
  /\ LET st == cloudOnData(req[r].fullResponse, chunk)
         rejects == st.threw /\ req[r].outcome = "pending"
         error == Error("Unexpected token")
     IN req' = [req EXCEPT
                  ![r].fullResponse = st.fullResponse,
                  ![r].chunks = @ + 1,
                  ![r].streamed = @ \o Carried(chunk),
                  ![r].outcome = IF rejects THEN "rejected" ELSE @,
                  ![r].error = IF rejects THEN error ELSE @,
                  ![r].posted = @ \o chunkEvents(st.out)
                                  \o (IF rejects
                                      THEN callerOnReject(req[r].sink, error)
                                      ELSE <<>>),
                  ![r].overtook = @ \cup Overtaken(req, r, st.out)]
  /\ UNCHANGED <<currentAbortController, conversationHistory, turnReq,
                 resetAt, dec, raised>>

\* "end" event of a self-hosted response stream
StreamEnd(r) ==
  /\ r \in 1..Len(req)
  /\ req[r].route = "stream"
  /\ req[r].stage = "streaming"
  /\ IF req[r].aborted
     THEN /\ req' = [req EXCEPT ![r].stage = "closed"]
          /\ UNCHANGED <<conversationHistory, turnReq>>
     ELSE LET fin == finalizeStream(req[r].fullResponse,
                                    req[r].useMultiRound,
                                    conversationHistory)
          IN /\ req' = [req EXCEPT
                          ![r].stage = "closed",
                          ![r].outcome = "resolved",
                          ![r].value = fin.value,
                          ![r].posted =
                             Append(@, Ev(fin.command, <<>>, "", ""))
                               \o callerOnResolve(req[r].sink, fin.value)]
             /\ conversationHistory' = fin.history
             /\ turnReq' = Owners(turnReq, conversationHistory', r)
  /\ UNCHANGED <<currentAbortController, resetAt, dec, raised>>

\* "end" event of a cloud response stream: handleCloudStream resolves and
\* handleCloudRequest stores the response
CloudEnd(r) ==
  /\ r \in 1..Len(req)
  /\ req[r].route = "cloud"
  /\ req[r].stage = "streaming"
  /\ IF req[r].outcome = "pending"
     THEN /\ req' = [req EXCEPT
                       ![r].stage = "closed",
                       ![r].outcome = "resolved",
                       ![r].value = req[r].fullResponse,
                       ![r].posted = @ \o callerOnResolve(req[r].sink,
                                                          req[r].fullResponse)]
          /\ conversationHistory' =
               IF req[r].useMultiRound
               THEN Append(conversationHistory,
                           Turn("assistant", req[r].fullResponse))
               ELSE conversationHistory
          /\ turnReq' = Owners(turnReq, conversationHistory', r)
     ELSE /\ req' = [req EXCEPT ![r].stage = "closed"]
          /\ UNCHANGED <<conversationHistory, turnReq>>
  /\ UNCHANGED <<currentAbortController, resetAt, dec, raised>>

\* "error" event of a self-hosted response stream: reject(error.message)
StreamError(r) ==
  /\ r \in 1..Len(req)
  /\ req[r].route = "stream"
  /\ req[r].stage = "streaming"
  /\ LET rejects == req[r].outcome = "pending"
         reason == StringReason(StreamFailure)
     IN req' = [req EXCEPT
                  ![r].stage = "closed",
                  ![r].outcome = IF rejects THEN "rejected" ELSE @,
                  ![r].error = IF rejects THEN reason ELSE @,
                  ![r].posted = @ \o (IF rejects
                                      THEN callerOnReject(req[r].sink, reason)
                                      ELSE <<>>)]
  /\ UNCHANGED <<currentAbortController, conversationHistory, turnReq,
                 resetAt, dec, raised>>

\* "error" event of a cloud response stream: reject(error)
CloudError(r) ==
  /\ r \in 1..Len(req)
  /\ req[r].route = "cloud"
  /\ req[r].stage = "streaming"
  /\ LET rejects == req[r].outcome = "pending"
         reason == Error(StreamFailure)
     IN req' = [req EXCEPT
                  ![r].stage = "closed",
                  ![r].outcome = IF rejects THEN "rejected" ELSE @,
                  ![r].error = IF rejects THEN reason ELSE @,
                  ![r].posted = @ \o (IF rejects
                                      THEN callerOnReject(req[r].sink, reason)
                                      ELSE <<>>)]
  /\ UNCHANGED <<currentAbortController, conversationHistory, turnReq,
                 resetAt, dec, raised>>

\* the command deepseek-vscode.stopGeneratingResponse
StopGeneratingResponse ==
  /\ req' = stopGeneratingResponse(req, currentAbortController)
  /\ currentAbortController' = 0
  /\ raised' = (raised \/ stopRaises(currentAbortController))
  /\ UNCHANGED <<conversationHistory, turnReq, resetAt, dec>>

\* the command deepseek-vscode.resetConversation: empty the history, then
\* stopGeneratingResponse()
ResetConversation ==
  /\ conversationHistory' = <<>>
  /\ turnReq' = <<>>
  /\ req' = stopGeneratingResponse(req, currentAbortController)
  /\ currentAbortController' = 0
  /\ resetAt' = Len(req)
  /\ raised' = (raised \/ stopRaises(currentAbortController))
  /\ UNCHANGED dec

Next ==
  \/ \E sink \in Sinks, message \in Messages,
        accountType \in AccountTypes, useMultiRound \in BOOLEAN :
       SendMessage(sink, message, accountType, useMultiRound)
  \/ \E r \in 1..MaxReq : PostResolve(r)
  \/ \E r \in 1..MaxReq, error \in PostErrors : PostReject(r, error)
  \/ \E r \in 1..MaxReq : CloudBodyNotStream(r)
  \/ \E r \in 1..MaxReq, chunk \in SelfChunks : StreamData(r, chunk)
  \/ \E r \in 1..MaxReq, chunk \in CloudChunks : CloudData(r, chunk)
  \/ \E r \in 1..MaxReq : StreamEnd(r)
  \/ \E r \in 1..MaxReq : CloudEnd(r)
  \/ \E r \in 1..MaxReq : StreamError(r)
  \/ \E r \in 1..MaxReq : CloudError(r)
  \/ StopGeneratingResponse
  \/ ResetConversation

Spec == Init /\ [][Next]_vars


(***************************** decoder harness *****************************)
\* One self-hosted response stream is decoded twice by the handlers of
\* handleStreamingRequest: once delivered as a single chunk (decoder 1),
\* once cut into two chunks at byte position cut (decoder 2).

\* the lines a server can send and the fragment each one carries
LineKinds == {"a", "wide", "padded", "bad", "blank", "empty"}

LineBytes(kind) ==
  CASE kind = "a"      -> <<"{", "a", "}">>
    [] kind = "wide"   -> <<"{", LeadByte, ContByte, "}">>
    [] kind = "padded" -> <<" ", "{", "b", "}", " ">>
    [] kind = "bad"    -> <<"{", "a">>          \* not JSON
    [] kind = "blank"  -> <<" ">>
    [] kind = "empty"  -> <<"{", "}">>          \* no response field

LineFragment(kind) ==
  CASE kind = "a"      -> << <<"a">> >>
    [] kind = "wide"   -> << <<WideChar>> >>
    [] kind = "padded" -> << <<"b">> >>
    [] OTHER           -> <<>>

RECURSIVE StreamBytes(_)
StreamBytes(lines) ==
  IF lines = <<>> THEN <<>>
  ELSE LineBytes(Head(lines)) \o <<NL>> \o StreamBytes(Tail(lines))

RECURSIVE ExpectedFragments(_)
ExpectedFragments(lines) ==
  IF lines = <<>> THEN <<>>
  ELSE LineFragment(Head(lines)) \o ExpectedFragments(Tail(lines))

LineSeqs == UNION {[1..n -> LineKinds] : n \in 0..MaxLines}

\* text after the last newline of the stream
Tails == { <<>>, <<"{", "a", "}">> }

NewDecoder ==
  [buffer |-> <<>>, fullResponse |-> <<>>, frags |-> <<>>, fed |-> 0,
   done |-> FALSE, value |-> <<>>]

DecoderInput(lines, tail, cut) ==
  LET bytes == StreamBytes(lines) \o tail IN
  [phase |-> "run", lines |-> lines, tail |-> tail, cut |-> cut,
   chunks |-> << <<bytes>>,
                 <<SubSeq(bytes, 1, cut), SubSeq(bytes, cut + 1, Len(bytes))>> >>,
   st |-> <<NewDecoder, NewDecoder>>]

InitDecoder ==
  /\ currentAbortController = 0
  /\ conversationHistory = <<>>
  /\ turnReq = <<>>
  /\ req = <<>>
  /\ resetAt = 0
  /\ raised = FALSE
  /\ \E lines \in LineSeqs, tail \in Tails :
       \E cut \in 0..Len(StreamBytes(lines) \o tail) :
         dec = DecoderInput(lines, tail, cut)

\* "data" event: the next chunk reaches decoder d
DecoderData(d) ==
  /\ dec.phase = "run"
  /\ dec.st[d].fed < Len(dec.chunks[d])
  /\ LET old == dec.st[d]
         st == streamOnData([buffer |-> old.buffer,
                             fullResponse |-> old.fullResponse,
                             out |-> <<>>],
                            FALSE, dec.chunks[d][old.fed + 1])
     IN dec' = [dec EXCEPT !.st[d] = [old EXCEPT !.buffer = st.buffer,
                                                 !.fullResponse = st.fullResponse,
                                                 !.frags = @ \o st.out,
                                                 !.fed = @ + 1]]
  /\ UNCHANGED <<currentAbortController, conversationHistory, turnReq, req,
                 resetAt, raised>>

\* mutant of DecoderEnd: the end handler parses what is left in the buffer
DecoderEndFlushes(d) ==
  /\ dec.phase = "run"
  /\ dec.st[d].fed = Len(dec.chunks[d])
  /\ ~dec.st[d].done
  /\ LET old == dec.st[d]
         st == streamOnData([buffer |-> old.buffer,
                             fullResponse |-> old.fullResponse,
                             out |-> <<>>],
                            FALSE, <<NL>>)
         fin == finalizeStream(st.fullResponse, FALSE, <<>>)
     IN dec' = [dec EXCEPT !.st[d] = [old EXCEPT !.buffer = st.buffer,
                                                 !.fullResponse = st.fullResponse,
                                                 !.frags = @ \o st.out,
                                                 !.done = TRUE,
                                                 !.value = fin.value]]
  /\ UNCHANGED <<currentAbortController, conversationHistory, turnReq, req,
                 resetAt, raised>>

\* "end" event: the stream of decoder d is over
DecoderEnd(d) ==
  /\ dec.phase = "run"
  /\ dec.st[d].fed = Len(dec.chunks[d])
  /\ ~dec.st[d].done
  /\ LET fin == finalizeStream(dec.st[d].fullResponse, FALSE, <<>>)
     IN dec' = [dec EXCEPT !.st[d].done = TRUE, !.st[d].value = fin.value]
  /\ UNCHANGED <<currentAbortController, conversationHistory, turnReq, req,
                 resetAt, raised>>

NextDecoder ==
  \/ \E d \in {1, 2} : DecoderData(d)
  \/ \E d \in {1, 2} : DecoderEnd(d)

SpecDecoder == InitDecoder /\ [][NextDecoder]_vars


(***************************** formatConversation harness ******************)
\* formatConversation applied to every history of at most MaxTurns Turns
Roles == {"user", "assistant"}
Contents == { <<>>, <<"a">>, <<"h", "i">>, <<"a", NL, NL, "b">> }
Turns == {Turn(role, content) : role \in Roles, content \in Contents}
Histories == UNION {[1..n -> Turns] : n \in 0..MaxTurns}

InitFormat ==
  /\ currentAbortController = 0
  /\ conversationHistory \in Histories
  /\ turnReq = <<>>
  /\ req = <<>>
  /\ resetAt = 0
  /\ raised = FALSE
  /\ dec = [phase |-> "format", history |-> conversationHistory,
            done |-> FALSE, prompt |-> <<>>]

\* prepareRequest calls formatConversation(conversationHistory)
FormatConversation ==
  /\ dec.phase = "format"
  /\ ~dec.done
  /\ dec' = [dec EXCEPT !.done = TRUE,
                        !.prompt = formatConversation(conversationHistory)]
  /\ UNCHANGED <<currentAbortController, conversationHistory, turnReq, req,
                 resetAt, raised>>

NextFormat == FormatConversation

SpecFormat == InitFormat /\ [][NextFormat]_vars


(***************************** prepareRequest harness **********************)
\* prepareRequest applied to every configuration below, and to the same
\* configuration with another API key
ApiKeys == {"key-1", "key-2"}
Temperatures == {NotANumber, Number(0), Number(3), Number(7), Number(10)}

\* a value of the setting outside the two the schema lists
OtherAccountType == "ollama"

Configs ==
  [accountType : AccountTypes \cup {Undefined, OtherAccountType},
   optionalCloudApiKey : ApiKeys,
   aiR1SelfHostedUrl : {Undefined, "http://host:1"},
   aiR1Model : {"", "deepseek-r1:14b"},
   aiR1ModelTemperature : Temperatures]

InitPrepare ==
  /\ currentAbortController = 0
  /\ conversationHistory \in { <<>>, << Turn("user", <<"a">>) >> }
  /\ turnReq = <<>>
  /\ req = <<>>
  /\ resetAt = 0
  /\ raised = FALSE
  /\ \E config \in Configs, otherKey \in ApiKeys, useMultiRound \in BOOLEAN :
       dec = [phase |-> "prepare", config |-> config, otherKey |-> otherKey,
              useMultiRound |-> useMultiRound, done |-> FALSE,
              request |-> <<>>, other |-> <<>>, handler |-> "none"]

\* sendToDeepSeek calls prepareRequest(config, message, useMultiRound) and
\* chooses the handler of the response
PrepareRequest(message) ==
  /\ dec.phase = "prepare"
  /\ ~dec.done
  /\ dec' = [dec EXCEPT
               !.done = TRUE,
               !.handler = handlerOf(dec.config,
                                     prepareRequest(dec.config, message,
                                                    dec.useMultiRound,
                                                    conversationHistory).data),
               !.request = prepareRequest(dec.config, message,
                                          dec.useMultiRound,
                                          conversationHistory),
               !.other = prepareRequest(
                           [dec.config EXCEPT
                              !.optionalCloudApiKey = dec.otherKey],
                           message, dec.useMultiRound, conversationHistory)]
  /\ UNCHANGED <<currentAbortController, conversationHistory, turnReq, req,
                 resetAt, raised>>

NextPrepare == \E message \in Messages : PrepareRequest(message)

SpecPrepare == InitPrepare /\ [][NextPrepare]_vars


(***************************** chat view harness ***************************)
\* the message listener of the chat view (chatview/app.js) applied to the
\* events of one response; the view holds the last AI bubble
MaxHandled == 6
MaxSent == 1

OpenMarker == <<"<", "t", "h", "i", "n", "k", ">">>
CloseMarker == <<"<", "/", "t", "h", "i", "n", "k", ">">>

\* the marker starts at position i of the text
occursAt(text, marker, i) ==
  /\ i >= 1
  /\ i + Len(marker) - 1 <= Len(text)
  /\ SubSeq(text, i, i + Len(marker) - 1) = marker

\* position of the first marker that starts at `from` or later, 0 when
\* there is none
RECURSIVE search(_, _, _)
search(text, marker, from) ==
  IF from + Len(marker) - 1 > Len(text) THEN 0
  ELSE IF occursAt(text, marker, from) THEN from
  ELSE search(text, marker, from + 1)

\* mutant of extractThinkContent: the matched pair stays in mainText
extractThinkContentKeepsPair(text) ==
  LET open == search(text, OpenMarker, 1)
      close == IF open = 0 THEN 0
               ELSE search(text, CloseMarker, open + Len(OpenMarker))
  IN IF close = 0
     THEN [mainText |-> text, thinkContent |-> <<>>]
     ELSE [mainText |-> text,
           thinkContent |-> SubSeq(text, open + Len(OpenMarker), close - 1)]

\* extractThinkContent(text): the first match of
\* /<think>([\s\S]*?)<\/think>/ is cut out of mainText, its group is
\* thinkContent
extractThinkContent(text) ==
  LET open == search(text, OpenMarker, 1)
      close == IF open = 0 THEN 0
               ELSE search(text, CloseMarker, open + Len(OpenMarker))
  IN IF close = 0
     THEN [mainText |-> text, thinkContent |-> <<>>]
     ELSE [mainText |-> SubSeq(text, 1, open - 1)
                          \o SubSeq(text, close + Len(CloseMarker), Len(text)),
           thinkContent |-> SubSeq(text, open + Len(OpenMarker), close - 1)]

\* ghost: the last call of extractThinkContent, its argument and its result
Extracted(text, result) ==
  [called |-> TRUE, text |-> text, mainText |-> result.mainText,
   thinkContent |-> result.thinkContent]

NotExtracted ==
  [called |-> FALSE, text |-> <<>>, mainText |-> <<>>, thinkContent |-> <<>>]

\* the chat holds no AI bubble. main is the text given to the renderer of
\* .ai-main, think the texts of the details.ai-think elements of the bubble
NoBubble ==
  [phase |-> "webview", thinking |-> FALSE, stopVisible |-> FALSE,
   bubble |-> FALSE, fullResponseSoFar |-> <<>>, main |-> <<>>,
   think |-> <<>>, streaming |-> FALSE, handled |-> 0,
   completes |-> 0,   \* ghost: streamComplete events handled for the bubble
   last |-> NotExtracted,
   sink |-> "sidebar", userBubbles |-> 0, lastUserMessage |-> <<>>,
   isStreaming |-> FALSE, resetVisible |-> FALSE,
   blank |-> "never"] \* ghost: the last blank message was submitted
                      \* "never", with no request in flight ("idle"), or
                      \* with one ("busy")

\* createAiResponseBubble(): the thinking indicator and a fresh last bubble
createAiResponseBubble(view) ==
  [view EXCEPT !.thinking = TRUE, !.bubble = TRUE,
               !.fullResponseSoFar = <<>>, !.main = <<>>, !.think = <<>>]

\* mutant of handleAiStreamChunk: the think section is built mid-stream
handleAiStreamChunkShowsThink(view, chunk) ==
  IF ~view.bubble THEN view
  ELSE LET updated == view.fullResponseSoFar \o chunk
           result == extractThinkContent(updated)
       IN [view EXCEPT !.fullResponseSoFar = updated,
                       !.main = result.mainText,
                       !.think = IF trim(result.thinkContent) # <<>>
                                 THEN <<result.thinkContent>> ELSE <<>>,
                       !.thinking = FALSE,
                       !.last = Extracted(updated, result)]

\* handleAiStreamChunk(chunk)
handleAiStreamChunk(view, chunk) ==
  IF ~view.bubble THEN view
  ELSE LET updated == view.fullResponseSoFar \o chunk
           result == extractThinkContent(updated)
       IN [view EXCEPT !.fullResponseSoFar = updated,
                       !.main = result.mainText,
                       !.thinking = FALSE,
                       !.last = Extracted(updated, result)]

\* mutant of finalizeAiResponse: the existing think section is kept
finalizeAiResponseKeepsThink(view) ==
  IF ~view.bubble THEN view
  ELSE LET fullText == view.fullResponseSoFar
           result == extractThinkContent(fullText)
       IN [view EXCEPT !.main = result.mainText,
                       !.think = @ \o (IF trim(result.thinkContent) # <<>>
                                       THEN <<result.thinkContent>>
                                       ELSE <<>>),
                       !.last = Extracted(fullText, result)]

\* finalizeAiResponse(): the bubble always holds .bubble and .ai-main; the
\* first think section of the bubble is removed, then one is appended
finalizeAiResponse(view) ==
  IF ~view.bubble THEN view
  ELSE LET fullText == view.fullResponseSoFar
           existingThink == IF view.think # <<>> THEN <<Head(view.think)>>
                            ELSE <<>>
           result == extractThinkContent(fullText)
       IN [view EXCEPT !.main = result.mainText,
                       !.think = SubSeq(@, Len(existingThink) + 1, Len(@))
                                   \o (IF trim(result.thinkContent) # <<>>
                                       THEN <<result.thinkContent>>
                                       ELSE <<>>),
                       !.last = Extracted(fullText, result)]

\* the chunks of an answer: text, white space, the markers, and a marker
\* that arrives in two chunks
ViewChunks ==
  { <<"a">>, <<" ">>, OpenMarker, CloseMarker,
    <<"<", "t", "h">>, <<"i", "n", "k", ">">> }

\* finalText of a streamComplete message: absent, or a whole answer
FinalTexts == { <<>>, OpenMarker \o <<"a">> \o CloseMarker \o <<"a">> }

InitWebview ==
  /\ currentAbortController = 0
  /\ conversationHistory = <<>>
  /\ turnReq = <<>>
  /\ req = <<>>
  /\ resetAt = 0
  /\ raised = FALSE
  /\ \E sink \in Sinks : dec = [NoBubble EXCEPT !.sink = sink]

Handling ==
  /\ dec.phase = "webview"
  /\ dec.handled < MaxHandled
  /\ UNCHANGED <<currentAbortController, conversationHistory, turnReq, req,
                 resetAt, raised>>

\* case "addThinking"
AddThinking ==
  /\ Handling
  /\ dec' = [dec EXCEPT !.thinking = TRUE, !.handled = @ + 1]

\* case "startResponse"
StartResponse ==
  /\ Handling
  /\ dec' = [createAiResponseBubble(dec) EXCEPT
               !.stopVisible = TRUE, !.streaming = TRUE, !.completes = 0,
               !.handled = @ + 1]

\* case "streamChunk"
StreamChunk(chunk) ==
  /\ Handling
  /\ dec' = [handleAiStreamChunk([dec EXCEPT !.thinking = FALSE], chunk)
               EXCEPT !.handled = @ + 1]

\* case "streamComplete"
StreamComplete(finalText) ==
  /\ Handling
  /\ LET stored == IF finalText # <<>> /\ dec.bubble
                   THEN [dec EXCEPT !.fullResponseSoFar = finalText]
                   ELSE dec
     IN dec' = [finalizeAiResponse(finalizeAiResponse(stored)) EXCEPT
                  !.stopVisible = FALSE, !.streaming = FALSE,
                  !.isStreaming = FALSE,
                  !.completes = IF dec.bubble THEN @ + 1 ELSE @,
                  !.handled = @ + 1]

\* mutant of sendMessage: a blank message is posted like any other
sendMessageUnguarded(view, message, isRetry) ==
  [view |-> [view EXCEPT
               !.userBubbles = IF isRetry THEN @ ELSE @ + 1,
               !.lastUserMessage = IF isRetry THEN @ ELSE message,
               !.isStreaming = TRUE, !.resetVisible = TRUE],
   posted |-> <<message>>]

\* sendMessage(message, isRetry) of the chat view: the view afterwards and
\* the texts posted to the extension with command "sendMessage"
sendMessage(view, message, isRetry) ==
  IF trim(message) = <<>> THEN [view |-> view, posted |-> <<>>]
  ELSE [view |-> [view EXCEPT
                    !.userBubbles = IF isRetry THEN @ ELSE @ + 1,
                    !.lastUserMessage = IF isRetry THEN @ ELSE message,
                    !.isStreaming = TRUE, !.resetVisible = TRUE],
        posted |-> <<message>>]

\* the extension's listener of the view calls sendToDeepSeek for the text:
\* handleSendMessage of the sidebar returns on a blank text, the listener
\* of the floating panel has no test
callsSendToDeepSeek(sink, text) == sink = "panel" \/ trim(text) # <<>>

\* what the user can type: nothing, white space, a message
InputTexts == { <<>>, <<" ", NL>> } \cup Messages

\* a click on Send (or Enter) with the text in the input box, and the
\* extension's listener for what the view posts
SendClick(message, accountType, useMultiRound) ==
  /\ dec.phase = "webview"
  /\ dec.handled < MaxHandled
  /\ LET sent == sendMessage(dec, message, FALSE)
         calls == /\ sent.posted # <<>>
                  /\ callsSendToDeepSeek(dec.sink, sent.posted[1])
     IN /\ calls => Len(req) < MaxSent
        /\ dec' = [sent.view EXCEPT
                     !.handled = @ + 1,
                     !.blank = IF trim(message) # <<>> THEN @
                               ELSE IF \E r \in 1..Len(req) : inFlight(req[r])
                                    THEN "busy" ELSE "idle"]
        /\ IF calls
           THEN /\ conversationHistory' =
                     appendUser(conversationHistory, useMultiRound, message)
                /\ req' = Append(abortExisting(req, currentAbortController),
                                 NewRequest(dec.sink, message, accountType,
                                            useMultiRound, Streaming(req),
                                            conversationHistory'))
                /\ currentAbortController' = Len(req) + 1
                /\ turnReq' = Owners(turnReq, conversationHistory',
                                     Len(req) + 1)
           ELSE UNCHANGED <<currentAbortController, conversationHistory,
                            turnReq, req>>
  /\ UNCHANGED <<resetAt, raised>>

NextWebview ==
  \/ \E message \in InputTexts, accountType \in AccountTypes,
        useMultiRound \in BOOLEAN :
       SendClick(message, accountType, useMultiRound)
  \/ AddThinking
  \/ StartResponse
  \/ \E chunk \in ViewChunks : StreamChunk(chunk)
  \/ \E finalText \in FinalTexts : StreamComplete(finalText)

SpecWebview == InitWebview /\ [][NextWebview]_vars


(***************************** activation harness **************************)
\* activate(context) in a host whose command registry already holds some
\* commands, followed by the registered commands being executed
MaxExecuted == 3

OpenSidebarView == "workbench.view.extension.deepseek-sidebar"
OpenSettings == "workbench.action.openSettings"

\* commands of the host and of other extensions
HostCommands == {OpenSidebarView, OpenSettings, "git.commit"}

\* the commands activate registers, in the order of the array
Commands ==
  << "deepseek-vscode.openChat",
     "deepseek-vscode.openSidebar",
     "deepseek-vscode.configureDeepSeek",
     "deepseek-vscode.askDeepSeek",
     "deepseek-vscode.resetConversation",
     "deepseek-vscode.stopGeneratingResponse" >>

Range(seq) == {seq[i] : i \in 1..Len(seq)}

\* mutant of activate: the array ends before stopGeneratingResponse
activateWithoutStop(host) ==
  [host EXCEPT
     !.activated = TRUE,
     !.providers = @ \cup {"deepseek.chat"},
     !.registry = @ \cup Range(SubSeq(Commands, 1, Len(Commands) - 1)),
     !.subscriptions = @ \o SubSeq(Commands, 1, Len(Commands) - 1)]

\* activate(context): the sidebar provider and the commands are registered,
\* the disposables of the commands are pushed to context.subscriptions
activate(host) ==
  [host EXCEPT
     !.activated = TRUE,
     !.providers = @ \cup {"deepseek.chat"},
     !.registry = @ \cup Range(Commands),
     !.subscriptions = @ \o Commands]

\* vscode.commands.executeCommand of a host command: the view it opens,
\* nothing when the registry does not hold it
hostCommand(host, command, view) ==
  IF command \in host.registry THEN [host EXCEPT !.shown = view] ELSE host

\* the three ways handleCodeQuery ends before it has a message to send
EditorStates == {"no editor", "no selection", "prompt cancelled"}

handleCodeQuery(host, editor) ==
  CASE editor = "no editor"    ->
         [host EXCEPT !.message = "No active editor found."]
    [] editor = "no selection" -> [host EXCEPT !.message = "No code selected."]
    [] OTHER                   -> host

\* the callback registered for each command
runCommand(host, command, editor) ==
  CASE command = "deepseek-vscode.openChat" ->
         [host EXCEPT !.chatPanel = TRUE, !.shown = "panel"]
    [] command = "deepseek-vscode.openSidebar" ->
         hostCommand(host, OpenSidebarView, "sidebar")
    [] command = "deepseek-vscode.configureDeepSeek" ->
         hostCommand(host, OpenSettings, "settings")
    [] command = "deepseek-vscode.askDeepSeek" ->
         handleCodeQuery(host, editor)
    [] OTHER -> host

NewHost(registry) ==
  [phase |-> "activate", activated |-> FALSE, registry |-> registry,
   subscriptions |-> <<>>, providers |-> {}, chatPanel |-> FALSE,
   shown |-> "none", message |-> "", executed |-> 0]

InitActivate ==
  /\ currentAbortController = 0
  /\ conversationHistory = <<>>
  /\ turnReq = <<>>
  /\ req = <<>>
  /\ resetAt = 0
  /\ raised = FALSE
  /\ \E registry \in SUBSET HostCommands : dec = NewHost(registry)

\* the host activates the extension
Activate ==
  /\ dec.phase = "activate"
  /\ ~dec.activated
  /\ dec' = activate(dec)
  /\ UNCHANGED <<currentAbortController, conversationHistory, turnReq, req,
                 resetAt, raised>>

\* a registered command is executed; resetConversation and
\* stopGeneratingResponse act on the module state
ExecuteCommand(command, editor) ==
  /\ dec.phase = "activate"
  /\ dec.activated
  /\ command \in dec.registry
  /\ dec.executed < MaxExecuted
  /\ dec' = [runCommand(dec, command, editor) EXCEPT !.executed = @ + 1]
  /\ IF command = "deepseek-vscode.resetConversation"
     THEN conversationHistory' = <<>> /\ turnReq' = <<>>
     ELSE UNCHANGED <<conversationHistory, turnReq>>
  /\ IF command \in {"deepseek-vscode.resetConversation",
                     "deepseek-vscode.stopGeneratingResponse"}
     THEN /\ req' = stopGeneratingResponse(req, currentAbortController)
          /\ currentAbortController' = 0
          /\ raised' = (raised \/ stopRaises(currentAbortController))
     ELSE UNCHANGED <<req, currentAbortController, raised>>
  /\ UNCHANGED resetAt

\* the floating panel is closed: onDidDispose
PanelDisposed ==
  /\ dec.phase = "activate"
  /\ dec.chatPanel
  /\ dec' = [dec EXCEPT !.chatPanel = FALSE,
                        !.shown = IF @ = "panel" THEN "none" ELSE @]
  /\ UNCHANGED <<currentAbortController, conversationHistory, turnReq, req,
                 resetAt, raised>>

NextActivate ==
  \/ Activate
  \/ \E command \in Range(Commands), editor \in EditorStates :
       ExecuteCommand(command, editor)
  \/ PanelDisposed

SpecActivate == InitActivate /\ [][NextActivate]_vars


(***************************** claims **************************************)
Requests == 1..Len(req)

IsStreamChunk(e) == e.command = "streamChunk"
StreamChunks(q) == SelectSeq(q.posted, IsStreamChunk)

InFlightStages == {"posting", "streaming"}

\* the request's POST and stream are over: nothing more happens for it
Quiescent(q) == q.stage \in {"closed", "failed"}

\* C1: when a request is issued while another one is streaming, the sink
\* has received the streamComplete of the streaming one before any
\* streamChunk of the new one is posted, for either account type.
C1_PreemptedCompletesFirst == \A r \in Requests : req[r].overtook = {}

\* C2: at most one abort handle created by sendToDeepSeek is non-aborted,
\* and it is the stored one: sendToDeepSeek and stopGeneratingResponse
\* abort the stored handle before they replace or clear it.
LiveHandles == {r \in Requests : ~req[r].aborted}

C2_AtMostOneLiveHandle ==
  /\ Cardinality(LiveHandles) <= 1
  /\ LiveHandles \subseteq {currentAbortController}

\* a second request was issued while the first was streaming unaborted
C2_Witness ==
  /\ Len(req) = 2
  /\ req[2].preempts = {1}
  /\ req[1].route = "stream"
  /\ req[1].aborted
  /\ ~req[2].aborted
  /\ currentAbortController = 2

\* C3: every assistant Turn of the history is immediately preceded by the
\* user Turn of the same request, also when a second request is issued
\* while the first is in flight, for either account type.
C3_AssistantFollowsOwnUser ==
  \A i \in 1..Len(conversationHistory) :
    conversationHistory[i].role = "assistant" =>
      /\ i > 1
      /\ conversationHistory[i - 1].role = "user"
      /\ turnReq[i - 1] = turnReq[i]

\* C4: once the handle of a request in flight has been aborted, no further
\* streamChunk is posted for that request, for either account type.
C4_NoChunkAfterAbort ==
  [][\A r \in Requests :
       req[r].abortedAt \in InFlightStages =>
         StreamChunks(req'[r]) = StreamChunks(req[r])]_vars

\* C5: a request aborted in flight, whether its POST was still pending or
\* its response was streaming, has a streamComplete posted to its sink.
C5_AbortPostsStreamComplete ==
  \A r \in Requests :
    (req[r].abortedAt \in InFlightStages /\ Quiescent(req[r])) =>
      HasPosted(req[r], "streamComplete")

\* the messages of the error events posted for a request
ErrorsPosted(q) ==
  {q.posted[i].error : i \in {j \in 1..Len(q.posted) :
                                q.posted[j].command = "error"}}

\* only stopGeneratingResponse and resetConversation, the user's aborts,
\* can abort the handle of the latest request
UserAborted(r) == r = Len(req) /\ req[r].abortedAt \in InFlightStages

\* C6: a request aborted by the user, while awaiting the connection or
\* while streaming, settles with the aborted outcome and the only message
\* shown for it is 'Generation stopped.'.
C6_AbortedOutcome ==
  \A r \in Requests :
    (UserAborted(r) /\ req[r].outcome # "pending") =>
      /\ req[r].outcome = "rejected"
      /\ handleError(req[r].error) = "Generation stopped."
      /\ ErrorsPosted(req[r]) \subseteq {"Generation stopped."}

\* a reset has happened and no user Turn has been appended since
AfterReset ==
  /\ resetAt > 0
  /\ \A r \in (resetAt + 1)..Len(req) : ~req[r].useMultiRound

UserTurnAppended ==
  /\ Len(conversationHistory') = Len(conversationHistory) + 1
  /\ conversationHistory'[Len(conversationHistory')].role = "user"

\* C7: resetConversation leaves the history empty and no stored handle,
\* having aborted the stored one, and the first user Turn appended after a
\* reset is the only element of the history.
C7_ResetStartsEmpty ==
  [][/\ ResetConversation =>
          /\ conversationHistory' = <<>>
          /\ currentAbortController' = 0
          /\ currentAbortController # 0 =>
               req'[currentAbortController].aborted
     /\ (AfterReset /\ UserTurnAppended) =>
          Len(conversationHistory') = 1]_vars

\* C8: the response of a request issued before resetConversation is never
\* appended to the history after the reset (the history holds only Turns
\* appended since the last reset).
C8_NoStaleResponse ==
  \A i \in 1..Len(conversationHistory) :
    conversationHistory[i].role = "assistant" => turnReq[i] > resetAt

\* C9: the self-hosted decoder posts the same fragments and builds the
\* same fullResponse whether the stream arrives as one chunk or cut into
\* two chunks at any position.
C9_ChunkingIndependent ==
  (dec.phase = "run" /\ dec.st[1].fed = 1 /\ dec.st[2].fed = 2) =>
    /\ dec.st[2].frags = dec.st[1].frags
    /\ dec.st[2].fullResponse = dec.st[1].fullResponse

\* the cut separates the two bytes of one character
CutInsideCharacter ==
  /\ dec.cut \in 1..(Len(dec.chunks[1][1]) - 1)
  /\ dec.chunks[1][1][dec.cut] = LeadByte
  /\ dec.chunks[1][1][dec.cut + 1] = ContByte

\* C10: a line that fails to parse is skipped and the stream goes on: the
\* fragments posted are those of the valid lines, in order, fullResponse
\* is their concatenation, and the operation completes with it.
C10_MalformedLineSkipped ==
  dec.phase = "run" =>
    \A d \in {1, 2} :
      (d = 1 \/ ~CutInsideCharacter) =>
        /\ dec.st[d].fed = Len(dec.chunks[d]) =>
             /\ dec.st[d].frags = ExpectedFragments(dec.lines)
             /\ dec.st[d].fullResponse =
                  Concat(ExpectedFragments(dec.lines))
        /\ dec.st[d].done =>
             dec.st[d].value = Concat(ExpectedFragments(dec.lines))

\* a malformed line between two valid ones, the first cut by the chunking
C10_Witness ==
  /\ dec.phase = "run"
  /\ dec.lines = <<"a", "bad", "padded">>
  /\ dec.cut = 2
  /\ dec.st[2].done
  /\ dec.st[2].frags = << <<"a">>, <<"b">> >>
  /\ dec.st[2].value = <<"a", "b">>

\* the number of events with the given command posted for a request
Count(q, command) ==
  Cardinality({i \in 1..Len(q.posted) : q.posted[i].command = command})

\* C11: in the cloud decoder a 'data: ' line with a malformed payload is
\* swallowed: the operation is never rejected because of it, and a stream
\* that ends after it completes with the text of the valid fragments.
C11_CloudMalformedSwallowed ==
  \A r \in Requests :
    req[r].route = "cloud" =>
      /\ req[r].error # Error("Unexpected token")
      /\ (req[r].stage = "closed" /\ req[r].error = NoError) =>
           /\ req[r].outcome = "resolved"
           /\ req[r].value = req[r].fullResponse

\* the failures of the transport: a rejected POST, an error of the stream
TransportFailures ==
  PostErrors \cup {StringReason(StreamFailure), Error(StreamFailure)}

\* C12: every transport or HTTP failure of a request is handled inside
\* sendToDeepSeek: exactly one error event is posted to the sink and the
\* promise resolves with the message string instead of rejecting.
C12_FailureHandledInside ==
  \A r \in Requests :
    req[r].error \in TransportFailures =>
      /\ req[r].outcome = "resolved"
      /\ req[r].value = handleError(req[r].error)
      /\ Count(req[r], "error") = 1

\* C13: a POST that fails with HTTP 401 delivers 'Authentication failed.
\* Check your API key.' to the sink, one that fails with HTTP 404 delivers
\* 'Invalid API endpoint. Check your configuration.'.
C13_StatusMessages ==
  \A r \in Requests :
    /\ req[r].error.status = 401 =>
         ErrorsPosted(req[r]) = {"Authentication failed. Check your API key."}
    /\ req[r].error.status = 404 =>
         ErrorsPosted(req[r]) =
           {"Invalid API endpoint. Check your configuration."}

\* the request settled with a failure that no abort caused, and its POST
\* and stream are over
Failed(q) == Quiescent(q) /\ q.outcome = "rejected" /\ ~q.aborted

\* C14: once a request has settled with a failure the stored handle is not
\* its handle any more, and no later step signals abort to it or posts an
\* event on its behalf.
C14_FailureClearsHandle ==
  [][\A r \in Requests :
       Failed(req[r]) =>
         /\ currentAbortController # r
         /\ ~req'[r].aborted
         /\ req'[r].posted = req[r].posted]_vars

\* the step is the "end" of request r's self-hosted stream: the stream
\* closes with neither an abort nor an error
StreamEnded(r) ==
  /\ req[r].route = "stream"
  /\ req[r].stage = "streaming"
  /\ req'[r].stage = "closed"
  /\ ~req'[r].aborted
  /\ req'[r].error = NoError

\* C15: when a self-hosted stream ends unaborted with multi-round enabled,
\* one assistant Turn holding fullResponse is appended to the history, then
\* one streamComplete is posted, and the operation resolves with
\* fullResponse.
C15_EndStoresResponse ==
  [][\A r \in Requests :
       (StreamEnded(r) /\ req[r].useMultiRound) =>
         /\ conversationHistory' =
              Append(conversationHistory,
                     Turn("assistant", req[r].fullResponse))
         /\ req'[r].posted =
              req[r].posted \o << Ev("streamComplete", <<>>, "", ""),
                                  Ev("addMessage", req[r].fullResponse, "",
                                     "deepseek") >>
         /\ req'[r].outcome = "resolved"
         /\ req'[r].value = req[r].fullResponse]_vars

\* a multi-round self-hosted request has completed with the reply "a"
C15_Witness ==
  \E r \in Requests :
    /\ req[r].route = "stream"
    /\ req[r].useMultiRound
    /\ req[r].outcome = "resolved"
    /\ req[r].value = <<"a">>
    /\ Count(req[r], "streamComplete") = 1
    /\ conversationHistory =
         << Turn("user", req[r].message), Turn("assistant", <<"a">>) >>

\* the fragments of the streamChunk events posted for a request
Fragments(q) ==
  [i \in 1..Len(StreamChunks(q)) |-> StreamChunks(q)[i].text]

\* s is t with some elements left out
RECURSIVE IsSubsequence(_, _)
IsSubsequence(s, t) ==
  IF s = <<>> THEN TRUE
  ELSE IF t = <<>> THEN FALSE
  ELSE IF Head(s) = Head(t) THEN IsSubsequence(Tail(s), Tail(t))
  ELSE IsSubsequence(s, Tail(t))

\* C16: the streamChunk events of a request are posted in the order their
\* fragments appear in the stream, and the concatenation of the fragments
\* posted so far is the request's fullResponse.
C16_FragmentsInStreamOrder ==
  \A r \in Requests :
    /\ IsSubsequence(Fragments(req[r]), req[r].streamed)
    /\ Concat(Fragments(req[r])) = req[r].fullResponse

\* a cloud and a self-hosted stream have each carried one chunk of two
\* fragments
C16_Witness ==
  /\ Len(req) = 2
  /\ req[1].route # req[2].route
  /\ \A r \in Requests :
       /\ Fragments(req[r]) = << <<"a">>, <<"b">> >>
       /\ req[r].fullResponse = <<"a", "b">>

\* requests 1 and 2 are self-hosted with multi-round enabled and the
\* history has not been reset
TwoRounds ==
  /\ Len(req) >= 2
  /\ resetAt = 0
  /\ \A r \in {1, 2} : req[r].route = "stream" /\ req[r].useMultiRound

\* C17: self-hosted, multi-round: after a first request with message m1 has
\* completed with reply r1, the prompt of the next request with message m2
\* is formatConversation([{user, m1}, {assistant, r1}, {user, m2}]).
C17_SecondPromptHasFirstRound ==
  (TwoRounds /\ req[1].outcome = "resolved") =>
    req[2].data.prompt =
      formatConversation(<< Turn("user", req[1].message),
                            Turn("assistant", req[1].value),
                            Turn("user", req[2].message) >>)

\* the first request was answered "ab" and the second one carries
\* "User: hi\n\nAssistant: ab\n\nUser: hi"
C17_Witness ==
  /\ TwoRounds
  /\ req[1].outcome = "resolved"
  /\ req[1].value = <<"a", "b">>
  /\ req[2].data.prompt =
       <<"U", "s", "e", "r", ":", " ", "h", "i", NL, NL,
         "A", "s", "s", "i", "s", "t", "a", "n", "t", ":", " ", "a", "b",
         NL, NL, "U", "s", "e", "r", ":", " ", "h", "i">>

\* 'User: <content>' or 'Assistant: <content>' according to the role
Labelled(turn) ==
  CASE turn.role = "user" ->
         <<"U", "s", "e", "r", ":", " ">> \o turn.content
    [] turn.role = "assistant" ->
         <<"A", "s", "s", "i", "s", "t", "a", "n", "t", ":", " ">>
           \o turn.content

\* the Turns in order, one blank line between two neighbours
RECURSIVE Rendered(_)
Rendered(h) ==
  IF h = <<>> THEN <<>>
  ELSE IF Len(h) = 1 THEN Labelled(h[1])
  ELSE Rendered(SubSeq(h, 1, Len(h) - 1)) \o <<NL, NL>> \o Labelled(h[Len(h)])

\* C18: formatConversation renders a Turn sequence as its Turns in order,
\* each as 'User: <content>' or 'Assistant: <content>', joined by one blank
\* line, without leading or trailing separator, and leaves the sequence as
\* it was.
C18_FormatConversation ==
  (dec.phase = "format" /\ dec.done) =>
    /\ dec.prompt = Rendered(dec.history)
    /\ conversationHistory = dec.history

\* [{user, "hi"}, {assistant, "a"}] has been rendered "User: hi\n\nAssistant: a"
C18_Witness ==
  /\ dec.phase = "format"
  /\ dec.done
  /\ dec.history = << Turn("user", <<"h", "i">>), Turn("assistant", <<"a">>) >>
  /\ dec.prompt = <<"U", "s", "e", "r", ":", " ", "h", "i", NL, NL,
                    "A", "s", "s", "i", "s", "t", "a", "n", "t", ":", " ",
                    "a">>

\* t is the end of s
EndsWith(s, t) ==
  Len(s) >= Len(t) /\ SubSeq(s, Len(s) - Len(t) + 1, Len(s)) = t

\* the body of request r carries the Turns `turns` at the end of what it
\* sends of the history
Carries(r, turns) ==
  IF req[r].route = "cloud"
  THEN EndsWith(req[r].data.messages, turns)
  ELSE EndsWith(req[r].data.prompt, formatConversation(turns))

UserTurn(r) == Turn("user", req[r].message)

\* the request failed, or was aborted while in flight
FailedOrAborted(q) ==
  q.outcome = "rejected" \/ q.abortedAt \in InFlightStages

\* C19: with multi-round enabled the user Turn of a request is in the
\* history when the request is sent, it stays there without an assistant
\* Turn when the request fails or is aborted, and the next request sends it.
C19_UserTurnSurvivesFailure ==
  \A r \in Requests :
    (req[r].useMultiRound /\ resetAt < r) =>
      /\ Carries(r, << UserTurn(r) >>)
      /\ \E i \in 1..Len(conversationHistory) :
           turnReq[i] = r /\ conversationHistory[i] = UserTurn(r)
      /\ (/\ r + 1 \in Requests
          /\ req[r + 1].useMultiRound
          /\ FailedOrAborted(req[r])) =>
           Carries(r + 1, << UserTurn(r), UserTurn(r + 1) >>)

\* the history holds the user Turn of request r, appended by r
HoldsUserTurn(r) ==
  \E i \in 1..Len(conversationHistory) :
    turnReq[i] = r /\ conversationHistory[i] = UserTurn(r)

\* C20: the content of the history is the same whether the multi-round
\* flag is enabled or disabled: the user Turn of every request issued since
\* the last reset is stored, as it is with the flag enabled.
C20_FlagIndependentHistory ==
  \A r \in Requests : resetAt < r => HoldsUserTurn(r)

\* C20, amended: a request issued with the flag disabled appends no Turn to
\* the history; a request issued with it enabled appends its user Turn.
C20_FlagDecidesStorage ==
  /\ \A i \in 1..Len(conversationHistory) : req[turnReq[i]].useMultiRound
  /\ \A r \in Requests :
       (req[r].useMultiRound /\ resetAt < r) => HoldsUserTurn(r)

\* a request with the flag disabled was answered "a" and left no Turn; the
\* next one, with the flag enabled, stored its user Turn
C20_Witness ==
  /\ Len(req) = 2
  /\ ~req[1].useMultiRound
  /\ req[1].outcome = "resolved"
  /\ req[1].value = <<"a">>
  /\ req[2].useMultiRound
  /\ conversationHistory = << UserTurn(2) >>

\* C21: for account type cloud the messages of every request body are the
\* entire Turn sequence and end with the Turn of the message being sent,
\* whatever the multi-round flag.
C21_CloudSendsCurrentTurn ==
  \A r \in Requests :
    req[r].route = "cloud" =>
      EndsWith(req[r].data.messages, << UserTurn(r) >>)

\* C24: for every request, in both wire shapes, a startResponse event is
\* posted before the first streamChunk of that request.
C24_StartBeforeFirstChunk ==
  \A r \in Requests :
    \A i \in 1..Len(req[r].posted) :
      req[r].posted[i].command = "streamChunk" =>
        \E j \in 1..(i - 1) : req[r].posted[j].command = "startResponse"

\* C25: every request that was started has caused its sink to receive a
\* terminal lifecycle event, streamComplete or error, by the time the
\* request is over: on success, on failure and on abort, for both account
\* types and both views.
C25_TerminalEventPosted ==
  \A r \in Requests :
    (Quiescent(req[r]) /\ req[r].outcome # "pending") =>
      (HasPosted(req[r], "streamComplete") \/ HasPosted(req[r], "error"))

\* C22: the temperature of the request body is the configured temperature
\* for every configured value, 0 included; the default 0.3 is used only
\* when no temperature is configured.
C22_TemperatureAsConfigured ==
  (dec.phase = "prepare" /\ dec.done) =>
    dec.request.data.temperature =
      IF dec.config.aiR1ModelTemperature.type = "number"
      THEN dec.config.aiR1ModelTemperature.tenths
      ELSE 3

\* C23: a self-hosted request carries a content-type header only, and the
\* same configuration with another API key gives the same descriptor.
C23_SelfHostedIgnoresKey ==
  (/\ dec.phase = "prepare"
   /\ dec.done
   /\ dec.config.accountType # "cloud") =>
    /\ DOMAIN dec.request.headers = {"ContentType"}
    /\ dec.other = dec.request

\* a self-hosted descriptor was built for two different keys
C23_Witness ==
  /\ dec.phase = "prepare"
  /\ dec.done
  /\ dec.config.accountType = "self-hosted"
  /\ dec.config.optionalCloudApiKey # dec.otherKey
  /\ dec.request.headers = [ContentType |-> "application/json"]
  /\ dec.request.url = <<"http://host:1", "/api/generate">>

\* the bytes decoder d has received so far
FedBytes(d) == Concat(SubSeq(dec.chunks[d], 1, dec.st[d].fed))

\* the lines whose newline is among the bytes
Terminated(bytes) ==
  SubSeq(dec.lines, 1,
         Cardinality({i \in 1..Len(bytes) : bytes[i] = NL}))

\* the bytes after the last newline
RECURSIVE Unterminated(_)
Unterminated(bytes) ==
  IF bytes = <<>> \/ bytes[Len(bytes)] = NL THEN <<>>
  ELSE Append(Unterminated(SubSeq(bytes, 1, Len(bytes) - 1)),
              bytes[Len(bytes)])

\* C26: the self-hosted decoder parses a line only once its newline has
\* arrived: after every chunk the fragments posted are those of the
\* terminated lines, and the text after the last newline is in the pending
\* buffer and has produced nothing.
C26_PartialLineStaysBuffered ==
  dec.phase = "run" =>
    \A d \in {1, 2} :
      /\ ~includes(dec.st[d].buffer, NL)
      /\ Len(dec.st[d].frags) =
           Len(ExpectedFragments(Terminated(FedBytes(d))))
      /\ (d = 1 \/ ~CutInsideCharacter) =>
           /\ dec.st[d].frags = ExpectedFragments(Terminated(FedBytes(d)))
           /\ dec.st[d].buffer = toString(Unterminated(FedBytes(d)))

\* the first chunk ended inside the second line: one fragment posted, the
\* begun line pending
C26_Witness ==
  /\ dec.phase = "run"
  /\ dec.lines = <<"a", "padded">>
  /\ dec.cut = 6
  /\ dec.st[2].fed = 1
  /\ dec.st[2].frags = << <<"a">> >>
  /\ dec.st[2].buffer = <<" ", "{">>

\* C27: stopGeneratingResponse and resetConversation raise no error, with
\* no stored handle they abort nothing and post no event, and a second
\* stopGeneratingResponse right after the first changes nothing.
C27_StopWithoutHandle ==
  [][/\ ~raised'
     /\ (/\ currentAbortController = 0
         /\ (StopGeneratingResponse \/ ResetConversation)) =>
          (req' = req /\ currentAbortController' = 0)
     /\ StopGeneratingResponse =>
          /\ currentAbortController' = 0
          /\ stopGeneratingResponse(req', currentAbortController') = req'
          /\ ~stopRaises(currentAbortController')]_vars

\* no handle is stored while the stream of a request is still open: a stop
\* or a reset finds nothing to abort
C27_Witness ==
  /\ currentAbortController = 0
  /\ ~raised
  /\ resetAt = Len(req)
  /\ \E r \in Requests : req[r].stage = "streaming"

\* the positions of the text where the marker starts
Occurrences(text, marker) ==
  {i \in 1..Len(text) : occursAt(text, marker, i)}

\* the text holds one pair: one start marker, and one end marker after it
OnePair(text) ==
  /\ Cardinality(Occurrences(text, OpenMarker)) = 1
  /\ Cardinality(Occurrences(text, CloseMarker)) = 1
  /\ \E i \in Occurrences(text, OpenMarker),
        j \in Occurrences(text, CloseMarker) : i + Len(OpenMarker) <= j

\* the text holds no start marker with an end marker after it
NoPair(text) ==
  \A i \in Occurrences(text, OpenMarker),
     j \in Occurrences(text, CloseMarker) : j < i + Len(OpenMarker)

\* the text of a one-pair text before the pair, inside it, and after it
Before(text) ==
  LET i == CHOOSE k \in Occurrences(text, OpenMarker) : TRUE
  IN SubSeq(text, 1, i - 1)

Between(text) ==
  LET i == CHOOSE k \in Occurrences(text, OpenMarker) : TRUE
      j == CHOOSE k \in Occurrences(text, CloseMarker) : TRUE
  IN SubSeq(text, i + Len(OpenMarker), j - 1)

After(text) ==
  LET j == CHOOSE k \in Occurrences(text, CloseMarker) : TRUE
  IN SubSeq(text, j + Len(CloseMarker), Len(text))

\* C28: on a text with one <think>...</think> pair extractThinkContent
\* returns the text without the pair as mainText and the text between the
\* markers as thinkContent; on a text with no complete pair it returns the
\* input as mainText and an empty thinkContent.
C28_ExtractThinkContent ==
  (dec.phase = "webview" /\ dec.last.called) =>
    /\ OnePair(dec.last.text) =>
         /\ dec.last.mainText = Before(dec.last.text) \o After(dec.last.text)
         /\ dec.last.thinkContent = Between(dec.last.text)
    /\ NoPair(dec.last.text) =>
         /\ dec.last.mainText = dec.last.text
         /\ dec.last.thinkContent = <<>>

\* a pair with text inside it and text around it has been split
C28_Witness ==
  /\ dec.phase = "webview"
  /\ dec.last.called
  /\ OnePair(dec.last.text)
  /\ dec.last.thinkContent # <<>>
  /\ Before(dec.last.text) # <<>>
  /\ After(dec.last.text) # <<>>

\* C29: a streamChunk renders mainText only - the raw text while no end
\* marker has arrived, the text without the pair afterwards - and the
\* reasoning section of the bubble is created by streamComplete only.
C29_ReasoningAfterCompletion ==
  [][/\ (dec.phase = "webview" /\ dec'.streaming /\ dec'.bubble) =>
          /\ dec'.think = <<>>
          /\ Occurrences(dec'.fullResponseSoFar, CloseMarker) = {} =>
               dec'.main = dec'.fullResponseSoFar
          /\ OnePair(dec'.fullResponseSoFar) =>
               dec'.main = Before(dec'.fullResponseSoFar)
                             \o After(dec'.fullResponseSoFar)
     /\ (dec.phase = "webview" /\ dec.think = <<>> /\ dec'.think # <<>>) =>
          \E finalText \in FinalTexts : StreamComplete(finalText)]_vars

\* the whole pair has arrived and the response is still streaming
C29_Witness ==
  /\ dec.phase = "webview"
  /\ dec.streaming
  /\ dec.think = <<>>
  /\ OnePair(dec.fullResponseSoFar)
  /\ trim(Between(dec.fullResponseSoFar)) # <<>>
  /\ dec.main = Before(dec.fullResponseSoFar) \o After(dec.fullResponseSoFar)

\* ghost: the POSTs issued so far
RECURSIVE Posts(_)
Posts(rq) == IF rq = <<>> THEN 0 ELSE Head(rq).posts + Posts(Tail(rq))

\* C30: an invocation of sendToDeepSeek issues one POST at most, and a POST
\* is issued only in the step in which a webview sends a message (a new
\* message or the Retry control): never after a failure or an abort alone.
C30_NoAutomaticRetry ==
  [][/\ \A r \in 1..Len(req') : req'[r].posts <= 1
     /\ Posts(req') # Posts(req) =>
          \E sink \in Sinks, message \in Messages,
             accountType \in AccountTypes, useMultiRound \in BOOLEAN :
            SendMessage(sink, message, accountType, useMultiRound)]_vars

\* the last invocation has failed or was aborted, and one POST was made
\* for it
C30_Witness ==
  /\ req # <<>>
  /\ LET q == req[Len(req)]
     IN /\ q.posts = 1
        /\ q.outcome = "rejected" \/ q.aborted
        /\ q.stage \in {"failed", "closed"}

\* the request was aborted in flight and an event that ends the response
\* in the view (streamComplete or error) has been posted to its sink
TerminalPosted(q) ==
  HasPosted(q, "streamComplete") \/ HasPosted(q, "error")

\* C31: the sidebar and the floating panel share one history and one abort
\* handle: the user Turn of a multi-round request of either view is in the
\* history, a request issued from one view leaves no earlier request of
\* the other view in flight, and the aborted request's terminal event is
\* posted to the view that issued it.
C31_ViewsShareOneHandle ==
  /\ \A r \in Requests :
       (req[r].useMultiRound /\ r > resetAt) =>
         \E i \in 1..Len(conversationHistory) :
           /\ turnReq[i] = r
           /\ conversationHistory[i] = Turn("user", req[r].message)
  /\ \A a, b \in Requests :
       (a < b /\ req[a].sink # req[b].sink) =>
         /\ ~inFlight(req[a])
         /\ req[a].abortedAt \in InFlightStages => TerminalPosted(req[a])

\* C33: over the whole lifetime of a request its sink receives one
\* streamComplete at most, also when the request is aborted and when a
\* stop, a reset or a new request follows its completion.
C33_OneStreamComplete ==
  \A r \in Requests : Count(req[r], "streamComplete") <= 1

\* C34: once the operation of a request has settled, resolved or rejected,
\* no further streamChunk is posted to its sink, in both wire shapes.
C34_NoChunkAfterSettled ==
  [][\A r \in Requests :
       req[r].outcome # "pending" =>
         StreamChunks(req'[r]) = StreamChunks(req[r])]_vars

\* C35: when a self-hosted stream ends, the text left in the buffer without
\* a newline is never parsed, even when it is a complete JSON object: it
\* posts no fragment and is absent from fullResponse, from the value the
\* operation resolves with and from the assistant Turn.
C35_UnterminatedTailDropped ==
  (dec.phase = "run" /\ dec.tail # <<>>) =>
    \A d \in {1, 2} :
      dec.st[d].done =>
        /\ Len(dec.st[d].frags) = Len(ExpectedFragments(dec.lines))
        /\ (d = 1 \/ ~CutInsideCharacter) =>
             /\ dec.st[d].frags = ExpectedFragments(dec.lines)
             /\ dec.st[d].fullResponse = Concat(ExpectedFragments(dec.lines))
             /\ dec.st[d].value = Concat(ExpectedFragments(dec.lines))
             /\ finalizeStream(dec.st[d].fullResponse, TRUE, <<>>).history =
                  << Turn("assistant", Concat(ExpectedFragments(dec.lines))) >>
             /\ dec.st[d].buffer = toString(dec.tail)

\* a stream of one line followed by a complete object without newline has
\* ended: one fragment, the object still in the buffer
C35_Witness ==
  /\ dec.phase = "run"
  /\ dec.lines = <<"padded">>
  /\ dec.tail = <<"{", "a", "}">>
  /\ dec.st[1].done
  /\ dec.st[2].done
  /\ dec.st[2].frags = << <<"b">> >>
  /\ dec.st[2].value = <<"b">>
  /\ dec.st[2].buffer = <<"{", "a", "}">>

\* the wire shape of the answer to a request: the chat completions API
\* (a messages list) streams 'data: ' events, /api/generate (a prompt)
\* streams one JSON object per line
WireShape(request) ==
  IF "messages" \in DOMAIN request.data THEN "cloud" ELSE "stream"

\* C36: for every value of the accountType setting - cloud, self-hosted,
\* absent or another string - the decoder sendToDeepSeek applies to the
\* response is the one of the wire shape of the request prepareRequest
\* built.
C36_DecoderMatchesRequest ==
  (dec.phase = "prepare" /\ dec.done) =>
    dec.handler = WireShape(dec.request)

\* C37: finalizeAiResponse is idempotent: after every streamComplete the
\* bubble holds one reasoning section at most, and finalizing it again
\* leaves the main text and the reasoning section as they are.
C37_FinalizeIdempotent ==
  [][(\E finalText \in FinalTexts : StreamComplete(finalText)) =>
       /\ Len(dec'.think) <= 1
       /\ finalizeAiResponse(dec') = dec'
       /\ (/\ dec.completes > 0
           /\ finalizeAiResponse(dec) = dec
           /\ StreamComplete(<<>>)) =>
            (dec'.main = dec.main /\ dec'.think = dec.think)]_vars

\* two streamComplete events have been handled for a bubble whose text
\* holds a reasoning pair
C37_Witness ==
  /\ dec.phase = "webview"
  /\ dec.bubble
  /\ dec.completes >= 2
  /\ Len(dec.think) = 1
  /\ dec.think[1] # <<>>
  /\ dec.main = extractThinkContent(dec.fullResponseSoFar).mainText

\* the request is the only one its view has issued
OnlyRequestOfView(r) ==
  \A a \in Requests \ {r} : req[a].sink # req[r].sink

\* C38: in each view the stop control is visible only while a request of
\* the view is in flight: once the request has settled - completed, failed
\* or aborted - or the conversation has been reset, the events posted to
\* the view have hidden it, in the sidebar and in the floating panel.
C38_StopOnlyWhileInFlight ==
  \A r \in Requests :
    (OnlyRequestOfView(r) /\ stopButton(FALSE, req[r].posted)) =>
      /\ inFlight(req[r])
      /\ resetAt < r

BlankMessages == {message \in InputTexts : trim(message) = <<>>}

\* C39: submitting an empty or whitespace-only message changes nothing: no
\* request is sent and no event posted, conversationHistory and the stored
\* handle are as before, a request in flight is not aborted, and the view
\* is as it was.
C39_BlankMessageIgnored ==
  [][\A message \in BlankMessages :
       (\E accountType \in AccountTypes, useMultiRound \in BOOLEAN :
          SendClick(message, accountType, useMultiRound)) =>
         /\ req' = req
         /\ conversationHistory' = conversationHistory
         /\ currentAbortController' = currentAbortController
         /\ [dec' EXCEPT !.handled = dec.handled, !.blank = dec.blank]
              = dec]_vars

\* a blank message has been submitted while the request of an earlier
\* message was in flight, which it still is
C39_Witness ==
  /\ dec.phase = "webview"
  /\ dec.blank = "busy"
  /\ Len(req) = 1
  /\ inFlight(req[1])
  /\ ~req[1].aborted
  /\ currentAbortController = 1

\* C32: after activate the six commands openChat, openSidebar,
\* configureDeepSeek, askDeepSeek, resetConversation and
\* stopGeneratingResponse are registered and the context holds at least
\* one subscription.
C32_CommandsRegistered ==
  (dec.phase = "activate" /\ dec.activated) =>
    /\ { "deepseek-vscode.openChat", "deepseek-vscode.openSidebar",
         "deepseek-vscode.configureDeepSeek", "deepseek-vscode.askDeepSeek",
         "deepseek-vscode.resetConversation",
         "deepseek-vscode.stopGeneratingResponse" } \subseteq dec.registry
    /\ Len(dec.subscriptions) >= 1

\* the extension was activated in a host that had commands of its own and
\* the stop command has been executed
C32_Witness ==
  /\ dec.phase = "activate"
  /\ dec.activated
  /\ HostCommands \subseteq dec.registry
  /\ Len(dec.subscriptions) = 6
  /\ dec.executed > 0
  /\ dec.chatPanel

====
